---- MODULE Spec2Model ----
\* Step-down price recovery engine of woot-wtf-pricing: the two variants of the
\* poller (src/index.js and src/unnamed/part_000), modelled as one state machine
\* whose variable prog selects the variant.  Prices are the two-decimal strings
\* of the Gateway, held as a number of cents; the arithmetic the code does on
\* them is JavaScript Number arithmetic (IEEE-754 binary64), modelled bit by bit.
EXTENDS Integers, Sequences, FiniteSets, TLC

------------------------------------------------------------------------------
\* JavaScript Number: a non-negative binary64 value v is held as the natural
\* number v * 2^Frac, written in base 2^LimbBits, least significant limb first.
\* Every double met by the model (0, or 2^-8 <= v < 2^15) is a multiple of
\* 2^-Frac, so the representation is exact.

LimbBits == 16
FracLimbs == 4
Mant == 53
Base == 2 ^ LimbBits
Frac == FracLimbs * LimbBits

Max(a, b) == IF a >= b THEN a ELSE b

RECURSIVE NatToLimbs(_)
NatToLimbs(n) == IF n = 0 THEN <<>> ELSE <<n % Base>> \o NatToLimbs(n \div Base)

RECURSIVE LimbsToNat(_)
LimbsToNat(x) == IF x = <<>> THEN 0 ELSE x[1] + Base * LimbsToNat(Tail(x))

RECURSIVE Trim(_)
Trim(x) == IF x = <<>> \/ x[Len(x)] # 0 THEN x ELSE Trim(SubSeq(x, 1, Len(x) - 1))

Limb(x, k) == IF k <= Len(x) THEN x[k] ELSE 0
Zeros(k) == [n \in 1..k |-> 0]
ShiftLimbsL(x, k) == IF x = <<>> THEN <<>> ELSE Zeros(k) \o x
ShiftLimbsR(x, k) == SubSeq(x, k + 1, Len(x))
\* 2^r as a natural
PowerOfTwo(r) == Zeros(r \div LimbBits) \o <<2 ^ (r % LimbBits)>>

RECURSIVE AddFrom(_, _, _, _)
AddFrom(x, y, k, c) ==
    IF k > Max(Len(x), Len(y))
    THEN IF c = 1 THEN <<1>> ELSE <<>>
    ELSE <<(Limb(x, k) + Limb(y, k) + c) % Base>>
         \o AddFrom(x, y, k + 1, (Limb(x, k) + Limb(y, k) + c) \div Base)
\* exact sum of two naturals
AddLimbs(x, y) == AddFrom(x, y, 1, 0)

RECURSIVE SubFrom(_, _, _, _)
SubFrom(x, y, k, b) ==
    IF k > Len(x)
    THEN <<>>
    ELSE <<(Limb(x, k) - Limb(y, k) - b) % Base>>
         \o SubFrom(x, y, k + 1, IF Limb(x, k) - Limb(y, k) - b < 0 THEN 1 ELSE 0)
\* exact difference x - y of two naturals, x >= y
SubLimbs(x, y) == Trim(SubFrom(x, y, 1, 0))

RECURSIVE LessFrom(_, _, _)
LessFrom(x, y, k) ==
    IF k = 0 THEN FALSE
    ELSE IF Limb(x, k) # Limb(y, k) THEN Limb(x, k) < Limb(y, k)
    ELSE LessFrom(x, y, k - 1)
LessLimbs(x, y) == LessFrom(x, y, Max(Len(x), Len(y)))

RECURSIVE DivFrom(_, _, _, _, _)
DivFrom(x, d, k, r, acc) ==
    IF k = 0 THEN <<Trim(acc), r>>
    ELSE DivFrom(x, d, k - 1, (r * Base + x[k]) % d,
                 <<(r * Base + x[k]) \div d>> \o acc)
\* <<quotient, remainder>> of a natural by a small divisor (long division)
DivSmall(x, d) == DivFrom(x, d, Len(x), 0, <<>>)

RECURSIVE MulFrom(_, _, _, _)
MulFrom(x, m, k, c) ==
    IF k > Len(x)
    THEN NatToLimbs(c)
    ELSE <<(x[k] * m + c) % Base>> \o MulFrom(x, m, k + 1, (x[k] * m + c) \div Base)
\* product of a natural by a small factor
MulSmall(x, m) == MulFrom(x, m, 1, 0)

\* number of bits of a natural
BitLen(x) ==
    IF x = <<>> THEN 0
    ELSE LimbBits * (Len(x) - 1)
         + (CHOOSE n \in 1..LimbBits : 2 ^ (n - 1) <= x[Len(x)] /\ x[Len(x)] < 2 ^ n)

\* x mod 2^r
LowBits(x, r) ==
    Trim([k \in 1..Len(x) |->
            IF k <= r \div LimbBits THEN x[k]
            ELSE IF k = r \div LimbBits + 1 THEN x[k] % (2 ^ (r % LimbBits))
            ELSE 0])

\* Round a natural (plus, when sticky, a positive fraction below one unit) to
\* Mant significant bits, to nearest, ties to even: the rounding of binary64.
RoundDouble(x, sticky) ==
    IF BitLen(x) <= Mant THEN x
    ELSE LET r    == BitLen(x) - Mant
             rem  == LowBits(x, r)
             down == SubLimbs(x, rem)
             half == PowerOfTwo(r - 1)
             odd  == (Limb(x, r \div LimbBits + 1) \div (2 ^ (r % LimbBits))) % 2 = 1
             up   == \/ LessLimbs(half, rem)
                     \/ rem = half /\ (sticky \/ odd)
         IN  IF up THEN AddLimbs(down, PowerOfTwo(r)) ELSE down

\* parseFloat of the two-decimal string that denotes c cents: the double
\* nearest to c / 100.
parseFloat(c) ==
    LET qr == DivSmall(ShiftLimbsL(NatToLimbs(c), FracLimbs), 100)
    IN  RoundDouble(qr[1], qr[2] # 0)

\* a + b and a - b (a >= b) of JavaScript Numbers
NumAdd(a, b) == RoundDouble(AddLimbs(a, b), FALSE)
NumSub(a, b) == RoundDouble(SubLimbs(a, b), FALSE)
NumLess(a, b) == LessLimbs(a, b)
MathMin(a, b) == IF NumLess(b, a) THEN b ELSE a

\* Number.prototype.toFixed(2), as the cents of the string it returns: the
\* integer n with n / 100 nearest to x, the larger n on a tie.
toFixed2(x) ==
    LimbsToNat(ShiftLimbsR(AddLimbs(MulSmall(x, 100), PowerOfTwo(Frac - 1)), FracLimbs))

------------------------------------------------------------------------------
\* The catalogue behind the Gateway and the poller's state.

Progs == {"index", "part000"}
DealIds == {"d1", "d2"}
VariantIds == {"v1", "v2", "v3", "v4"}
\* product(id: $id) { variants { edges } }: the variants of each product
ProductVariants == [p1 |-> <<"v1", "v2">>, p2 |-> <<"v3", "v4">>]
QueryOutcomes == {"ok", "errors", "throw", "shape"}
MutationOutcomes == {"ok", "errors", "userErrors", "throw", "shape"}

\* the clock stops advancing at MaxNow; the counters of start transitions and of
\* start mutations saturate at MaxStarts
MaxNow == 1
MaxStarts == 2

priceIncrement == 999
indexIncrement == 1000

VARIABLES
    prog,                 \* which variant of the poller runs
    pc,                   \* where the poll loop stands
    trackedDeals,         \* deal id -> completed flag (index.js: a Set, the flag unused)
    deals, i,             \* data.metaobjects.edges of this cycle and the loop index
    variants, j,          \* data.product.variants.edges of this pass and the loop index
    allVariantsComplete,
    metaobjects,          \* Gateway: deal id -> its fields, a list of key/value pairs
    listing,              \* Gateway: the deal ids FetchDeals returns, in order
    price,                \* Gateway: variant id -> price, in cents
    compareAtPrice,       \* Gateway: variant id -> compare-at price, in cents
    now,                  \* new Date()
    starts,               \* deal id -> times it entered the tracker
    updateDealCalls,      \* deal id -> UpdateDealMetadata requests issued
    last,                 \* the step just taken and what it did
    cycleLog,             \* what this cycle has done so far
    passLog,              \* what this adjustProductPrices pass has done so far
    anyFault,             \* some Gateway call of this run has failed
    completed,            \* the deals that have left the Active phase in this run
    interrupted           \* the deals a restart of the process caught in the Active phase

local == <<prog, pc, trackedDeals, deals, i, variants, j, allVariantsComplete>>
remote == <<metaobjects, listing, price, compareAtPrice, now>>
hist == <<starts, updateDealCalls, last, cycleLog, passLog, anyFault, completed, interrupted>>
vars == <<local, remote, hist>>

Min(a, b) == IF a <= b THEN a ELSE b
Range(s) == {s[k] : k \in DOMAIN s}
Empty == [d \in {} |-> FALSE]

\* deal.node.fields.reduce((acc, field) => { acc[field.key] = field.value; ... }, {})
RECURSIVE Reduce(_, _)
Reduce(fs, acc) ==
    IF fs = <<>> THEN acc
    ELSE Reduce(Tail(fs),
                [k \in DOMAIN acc \cup {fs[1].key} |->
                    IF k = fs[1].key THEN fs[1].value ELSE acc[k]])
ParseFields(fs) == Reduce(fs, [k \in {} |-> "undefined"])
\* fields.<key>, undefined when the deal has no such field
Field(fields, key) == IF key \in DOMAIN fields THEN fields[key] ELSE "undefined"

\* trackedDeals.has(id) / id in trackedDeals
Has(t, id) == id \in DOMAIN t
\* the test that guards adjustProductPrices
IsActive(t, id) == IF prog = "index" THEN Has(t, id) ELSE Has(t, id) /\ ~t[id]
\* trackedDeals.add(id) / trackedDeals[id] = false
Track(t, id) == [d \in DOMAIN t \cup {id} |-> IF d = id THEN FALSE ELSE t[d]]
\* completion that clears the whole tracker, not the one entry
CompleteAll(t, id) ==
    IF prog = "index" THEN Empty ELSE [d \in DOMAIN t \cup {id} |-> TRUE]

\* completion that removes the key in both variants
CompleteByDelete(t, id) == [d \in DOMAIN t \ {id} |-> t[d]]

\* trackedDeals.delete(id) / trackedDeals[id] = true
Complete(t, id) ==
    IF prog = "index" THEN [d \in DOMAIN t \ {id} |-> t[d]]
    ELSE [d \in DOMAIN t \cup {id} |-> IF d = id THEN TRUE ELSE t[d]]

\* new Date(fields.start_time) <= new Date()
StartReached(fields) ==
    /\ "start_time" \in DOMAIN fields
    /\ fields["start_time"] <= now

\* the conditions on the fields without the test of the flag
EligibleUnflagged(fields) ==
    /\ StartReached(fields)
    /\ prog = "index" => Field(fields, "wtf_pricing_started") # "true"

\* the conditions of the start transition on the deal's fields
Eligible(fields) ==
    /\ Field(fields, "wtf_pricing") = "true"
    /\ StartReached(fields)
    /\ prog = "index" => Field(fields, "wtf_pricing_started") # "true"

\* the start condition without its test of the tracker
StartGuardUntracked(fields, id, t) == Eligible(fields)

\* the condition of the start transition
StartGuard(fields, id, t) == Eligible(fields) /\ ~Has(t, id)

\* price adjustment only while the deal's flag is still "true"
ShouldAdjustWhileFlagged(fields, id, t) ==
    IsActive(t, id) /\ Field(fields, "wtf_pricing") = "true"

\* if (trackedDeals.has(id)) / if (id in trackedDeals && !trackedDeals[id]): the
\* fields of the deal take no part in it
ShouldAdjust(fields, id, t) == IsActive(t, id)

\* the deal tracked only when its start mutation succeeded
AfterUpdateDealIfOk(outcome, t, id) == IF outcome = "ok" THEN Track(t, id) ELSE t

\* await updateDeal(id); trackedDeals.add(id): updateDeal catches its faults and
\* returns nothing, so the add follows whatever the mutation's outcome
AfterUpdateDeal(outcome, t, id) == Track(t, id)

\* no try/catch around the body: the fault rejects main's promise
OuterCatchMissing == "crashed"

\* where a fault thrown in the body of fetchAndProcessDeals lands: its catch
\* logs and the function returns to main, which sleeps
OuterCatch == "sleep"

Saturate(n) == Min(n + 1, MaxStarts)

NoStep == [op |-> "none", id |-> "none", outcome |-> "none", result |-> FALSE,
           active |-> FALSE, eligible |-> FALSE, guard |-> FALSE,
           requested |-> FALSE, cur |-> 0, cmp |-> 0, sent |-> 0,
           flag |-> FALSE, reached |-> FALSE, started |-> FALSE, resumed |-> FALSE]
NewCycle == [fetch |-> "none", tracked |-> trackedDeals, startCalls |-> 0,
             priceCalls |-> [v \in VariantIds |-> 0], dealFault |-> FALSE,
             prices |-> price]
NoPass == [id |-> "none", failed |-> {}, tracked |-> Empty]

\* the poller as the process starts it, with nothing tracked and nothing done
Constructed ==
    /\ prog \in Progs
    /\ pc = "fetchDeals"
    /\ trackedDeals = Empty
    /\ deals = <<>> /\ i = 1
    /\ variants = <<>> /\ j = 1
    /\ allVariantsComplete = TRUE
    /\ starts = [d \in DealIds |-> 0]
    /\ updateDealCalls = [d \in DealIds |-> 0]
    /\ last = NoStep
    /\ passLog = NoPass
    /\ anyFault = FALSE
    /\ completed = {}
    /\ interrupted = {}

Init ==
    /\ Constructed
    /\ \E started \in {<<>>, <<[key |-> "wtf_pricing_started", value |-> "true"]>>},
          flag \in {"true", "false"} :
          metaobjects =
            [d1 |-> <<[key |-> "wtf_pricing", value |-> "true"],
                      [key |-> "start_time", value |-> 0],
                      [key |-> "product", value |-> "p1"]>> \o started,
             d2 |-> <<[key |-> "wtf_pricing", value |-> flag],
                      [key |-> "start_time", value |-> 1],
                      [key |-> "product", value |-> "p2"]>>]
    /\ listing = <<"d1", "d2">>
    /\ price = [v1 |-> 8000, v2 |-> 10000, v3 |-> 414, v4 |-> 113]
    /\ compareAtPrice = [v1 |-> 10000, v2 |-> 10000, v3 |-> 1413, v4 |-> 1113]
    /\ now = 0
    /\ cycleLog = NewCycle

------------------------------------------------------------------------------
\* The poll loop, one action per step between two awaits.

\* FetchDeals answers with the listed deals and their fields
DealEdges == [k \in 1..Len(listing) |-> [id |-> listing[k], fields |-> metaobjects[listing[k]]]]
\* FetchProduct answers with the variants of the product
VariantEdges(productId) ==
    IF productId \in DOMAIN ProductVariants
    THEN [k \in 1..Len(ProductVariants[productId]) |->
            [id |-> ProductVariants[productId][k],
             price |-> price[ProductVariants[productId][k]],
             compareAtPrice |-> compareAtPrice[ProductVariants[productId][k]]]]
    ELSE <<>>
\* UpdateDealMetadata stores the field it is given
SetField(fs, key, value) ==
    IF \E k \in DOMAIN fs : fs[k].key = key
    THEN [k \in DOMAIN fs |-> IF fs[k].key = key THEN [key |-> key, value |-> value] ELSE fs[k]]
    ELSE Append(fs, [key |-> key, value |-> value])

\* fetchAndProcessDeals without the return on errors
FetchDealsNextNoReturn(outcome, n) ==
    IF outcome \in {"ok", "errors"} THEN (IF n = 0 THEN "sleep" ELSE "scan")
    ELSE "sleep"

\* after the request of fetchAndProcessDeals: the loop over the deals, the
\* return on errors, or the catch
FetchDealsNext(outcome, n) ==
    IF outcome = "ok" THEN (IF n = 0 THEN "sleep" ELSE "scan")
    ELSE IF outcome = "errors" THEN "sleep"
    ELSE OuterCatch

\* after one deal of the loop: the next deal, or the end of the cycle
NextDeal(k, n) == IF k + 1 > n THEN "sleep" ELSE "scan"

\* adjustProductPrices without its return of allVariantsComplete
AdjustResultNever(outcome, all) == FALSE

\* adjustProductPrices returning true from its failure paths
AdjustResultTrueOnFailure(outcome, all) == IF outcome = "ok" THEN all ELSE TRUE

\* what adjustProductPrices returns
AdjustResult(outcome, all) == IF outcome = "ok" THEN all ELSE FALSE

\* the price increment of the variant that runs, as a Number
Increment == IF prog = "index" THEN parseFloat(indexIncrement) ELSE parseFloat(priceIncrement)
IncrementCents == IF prog = "index" THEN indexIncrement ELSE priceIncrement

\* newPrice without the snap and without the cap
NewPriceUncapped(currentPrice, compareAt) == NumAdd(currentPrice, Increment)

\* newPrice of incrementVariantPrice, from the two parsed prices
NewPrice(currentPrice, compareAt) ==
    IF NumLess(NumSub(compareAt, currentPrice), Increment)
    THEN compareAt
    ELSE MathMin(NumAdd(currentPrice, Increment), compareAt)

\* a test that lets a variant at its target through
BelowOrAtTarget(currentPrice, compareAt) == ~NumLess(compareAt, currentPrice)

\* if (currentPrice < compareAtPrice)
BelowTarget(currentPrice, compareAt) == NumLess(currentPrice, compareAt)

\* toFixed(0) in place of toFixed(2): whole units
FormatPriceWhole(newPrice) ==
    100 * LimbsToNat(ShiftLimbsR(AddLimbs(newPrice, PowerOfTwo(Frac - 1)), FracLimbs))

\* the price string of the mutation's input
FormatPrice(newPrice) == toFixed2(newPrice)

\* newPrice === compareAtPrice
IsVariantComplete(newPrice, compareAt) == newPrice = compareAt

\* a loop that returns at the first incomplete variant
NextVariantStopOnIncomplete(k, n, isVariantComplete) ==
    IF k + 1 > n \/ ~isVariantComplete THEN "adjusted" ELSE "variant"

\* after one variant of the loop of adjustProductPrices
NextVariant(k, n, isVariantComplete) == IF k + 1 > n THEN "adjusted" ELSE "variant"

Fault(outcome) == anyFault \/ outcome # "ok"

FetchDeals ==
    /\ pc = "fetchDeals"
    /\ \E outcome \in QueryOutcomes :
        /\ pc' = FetchDealsNext(outcome, Len(DealEdges))
        /\ deals' = IF outcome = "ok" THEN DealEdges ELSE deals
        /\ i' = 1
        /\ last' = [NoStep EXCEPT !.op = "fetchDeals", !.outcome = outcome]
        /\ cycleLog' = [cycleLog EXCEPT !.fetch = outcome]
        /\ anyFault' = Fault(outcome)
    /\ UNCHANGED <<prog, trackedDeals, variants, j, allVariantsComplete>>
    /\ UNCHANGED <<remote, starts, updateDealCalls, passLog, completed, interrupted>>

\* the end of the work on deals[i], adjustProductPrices having returned isDealComplete
FinishDeal(id, isDealComplete) ==
    /\ trackedDeals' = IF isDealComplete THEN Complete(trackedDeals, id) ELSE trackedDeals
    /\ completed' = IF isDealComplete THEN completed \cup {id} ELSE completed
    /\ i' = i + 1
    /\ pc' = NextDeal(i, Len(deals))

ScanDeal ==
    /\ pc = "scan"
    /\ LET id     == deals[i].id
           fields == ParseFields(deals[i].fields)
           guard  == StartGuard(fields, id, trackedDeals)
           step   == [NoStep EXCEPT !.op = "scan", !.id = id, !.guard = guard,
                                    !.eligible = Eligible(fields),
                                    !.active = IsActive(trackedDeals, id),
                                    !.flag = (Field(fields, "wtf_pricing") = "true"),
                                    !.reached = StartReached(fields),
                                    !.started = (Field(fields, "wtf_pricing_started") = "true"),
                                    !.resumed = (id \in interrupted)]
       IN  \/ /\ guard /\ prog = "index"
              /\ pc' = "updateDeal"
              /\ last' = step
              /\ interrupted' = interrupted \ {id}
              /\ UNCHANGED <<trackedDeals, i, starts, cycleLog, anyFault>>
           \/ /\ guard /\ prog = "part000"
              /\ trackedDeals' = Track(trackedDeals, id)
              /\ starts' = [starts EXCEPT ![id] = Saturate(@)]
              /\ IF ShouldAdjust(fields, id, trackedDeals')
                 THEN pc' = "fetchProduct" /\ i' = i
                 ELSE pc' = NextDeal(i, Len(deals)) /\ i' = i + 1
              /\ last' = step
              /\ interrupted' = interrupted \ {id}
              /\ UNCHANGED <<cycleLog, anyFault>>
           \/ /\ ~guard
              /\ IF ShouldAdjust(fields, id, trackedDeals)
                 THEN pc' = "fetchProduct" /\ i' = i
                 ELSE pc' = NextDeal(i, Len(deals)) /\ i' = i + 1
              /\ last' = step
              /\ interrupted' = interrupted \ {id}
              /\ UNCHANGED <<trackedDeals, starts, cycleLog, anyFault>>
           \/ \* the record lacks its fields list: reduce throws
              /\ pc' = OuterCatch
              /\ last' = [step EXCEPT !.outcome = "shape", !.guard = FALSE]
              /\ cycleLog' = [cycleLog EXCEPT !.dealFault = TRUE]
              /\ anyFault' = TRUE
              /\ UNCHANGED <<trackedDeals, i, starts, interrupted>>
    /\ UNCHANGED <<prog, deals, variants, j, allVariantsComplete>>
    /\ UNCHANGED <<remote, updateDealCalls, passLog, completed>>

UpdateDeal ==
    /\ pc = "updateDeal"
    /\ LET id     == deals[i].id
           fields == ParseFields(deals[i].fields)
       IN  \E outcome \in MutationOutcomes :
            /\ metaobjects' =
                 IF outcome = "ok"
                 THEN [metaobjects EXCEPT ![id] = SetField(@, "wtf_pricing_started", "true")]
                 ELSE metaobjects
            /\ updateDealCalls' = [updateDealCalls EXCEPT ![id] = Saturate(@)]
            /\ trackedDeals' = AfterUpdateDeal(outcome, trackedDeals, id)
            /\ starts' = [starts EXCEPT ![id] = Saturate(@)]
            /\ IF ShouldAdjust(fields, id, trackedDeals')
               THEN pc' = "fetchProduct" /\ i' = i
               ELSE pc' = NextDeal(i, Len(deals)) /\ i' = i + 1
            /\ last' = [NoStep EXCEPT !.op = "updateDeal", !.id = id, !.outcome = outcome]
            /\ cycleLog' = [cycleLog EXCEPT !.startCalls = @ + 1]
            /\ anyFault' = Fault(outcome)
    /\ UNCHANGED <<prog, deals, variants, j, allVariantsComplete>>
    /\ UNCHANGED <<listing, price, compareAtPrice, now, passLog, completed, interrupted>>

FetchProduct ==
    /\ pc = "fetchProduct"
    /\ LET id     == deals[i].id
           fields == ParseFields(deals[i].fields)
           edges  == VariantEdges(Field(fields, "product"))
       IN  \E outcome \in QueryOutcomes :
            /\ last' = [NoStep EXCEPT !.op = "fetchProduct", !.id = id, !.outcome = outcome,
                                      !.result = AdjustResult(outcome, TRUE)]
            /\ passLog' = [id |-> id, failed |-> {}, tracked |-> trackedDeals]
            /\ anyFault' = Fault(outcome)
            /\ IF outcome = "ok" /\ edges # <<>>
               THEN /\ variants' = edges
                    /\ j' = 1
                    /\ allVariantsComplete' = TRUE
                    /\ pc' = "variant"
                    /\ UNCHANGED <<trackedDeals, i, completed>>
               ELSE /\ FinishDeal(id, AdjustResult(outcome, TRUE))
                    /\ variants' = <<>>
                    /\ UNCHANGED <<j, allVariantsComplete>>
    /\ UNCHANGED <<prog, deals>>
    /\ UNCHANGED <<remote, starts, updateDealCalls, cycleLog, interrupted>>

IncrementVariant ==
    /\ pc = "variant"
    /\ LET variant        == variants[j]
           currentPrice   == parseFloat(variant.price)
           compareAt      == parseFloat(variant.compareAtPrice)
           newPrice       == NewPrice(currentPrice, compareAt)
           step           == [NoStep EXCEPT !.op = "incrementVariantPrice", !.id = variant.id,
                                            !.cur = variant.price,
                                            !.cmp = variant.compareAtPrice]
       IN  IF BelowTarget(currentPrice, compareAt)
           THEN \E outcome \in MutationOutcomes :
                 LET done == outcome = "ok" /\ IsVariantComplete(newPrice, compareAt)
                 IN  /\ price' = IF outcome = "ok"
                                 THEN [price EXCEPT ![variant.id] = FormatPrice(newPrice)]
                                 ELSE price
                     /\ allVariantsComplete' = (allVariantsComplete /\ done)
                     /\ pc' = NextVariant(j, Len(variants), done)
                     /\ last' = [step EXCEPT !.requested = TRUE, !.outcome = outcome,
                                             !.sent = FormatPrice(newPrice), !.result = done]
                     /\ cycleLog' = [cycleLog EXCEPT !.priceCalls[variant.id] = @ + 1]
                     /\ passLog' = IF outcome = "ok" THEN passLog
                                   ELSE [passLog EXCEPT !.failed = @ \cup {variant.id}]
                     /\ anyFault' = Fault(outcome)
           ELSE /\ pc' = NextVariant(j, Len(variants), TRUE)
                /\ last' = [step EXCEPT !.result = TRUE]
                /\ UNCHANGED <<price, allVariantsComplete, cycleLog, passLog, anyFault>>
    /\ j' = j + 1
    /\ UNCHANGED <<prog, trackedDeals, deals, i, variants>>
    /\ UNCHANGED <<metaobjects, listing, compareAtPrice, now, starts, updateDealCalls>>
    /\ UNCHANGED <<completed, interrupted>>

FinishAdjust ==
    /\ pc = "adjusted"
    /\ FinishDeal(deals[i].id, AdjustResult("ok", allVariantsComplete))
    /\ last' = [NoStep EXCEPT !.op = "adjustProductPrices", !.id = deals[i].id,
                              !.outcome = "ok",
                              !.result = AdjustResult("ok", allVariantsComplete)]
    /\ UNCHANGED <<prog, deals, variants, j, allVariantsComplete>>
    /\ UNCHANGED <<remote, starts, updateDealCalls, cycleLog, passLog, anyFault, interrupted>>

\* main: the sleep between two cycles, and the start of the next
Sleep ==
    /\ pc = "sleep"
    /\ pc' = "fetchDeals"
    /\ now' = Min(now + 1, MaxNow)
    /\ last' = [NoStep EXCEPT !.op = "sleep"]
    /\ cycleLog' = NewCycle
    /\ passLog' = NoPass
    /\ UNCHANGED <<prog, trackedDeals, deals, i, variants, j, allVariantsComplete>>
    /\ UNCHANGED <<metaobjects, listing, price, compareAtPrice>>
    /\ UNCHANGED <<starts, updateDealCalls, anyFault, completed, interrupted>>

Next ==
    \/ FetchDeals
    \/ ScanDeal
    \/ UpdateDeal
    \/ FetchProduct
    \/ IncrementVariant
    \/ FinishAdjust
    \/ Sleep

Spec == Init /\ [][Next]_vars

\* The process is stopped and started again: const trackedDeals = new Set() /
\* let trackedDeals = {} run anew and main starts its loop; the Gateway keeps
\* what it holds. The counters of the run start again from zero.
Restart ==
    /\ pc' = "fetchDeals"
    /\ trackedDeals' = Empty
    /\ deals' = <<>> /\ i' = 1
    /\ variants' = <<>> /\ j' = 1
    /\ allVariantsComplete' = TRUE
    /\ starts' = [d \in DealIds |-> 0]
    /\ updateDealCalls' = [d \in DealIds |-> 0]
    /\ last' = [NoStep EXCEPT !.op = "restart"]
    /\ cycleLog' = [NewCycle EXCEPT !.tracked = Empty]
    /\ passLog' = NoPass
    /\ anyFault' = FALSE
    /\ completed' = {}
    /\ interrupted' = interrupted \cup
          {d \in DealIds :
              /\ IsActive(trackedDeals, d)
              /\ \E v \in Range(ProductVariants[Field(ParseFields(metaobjects[d]), "product")]) :
                    price[v] < compareAtPrice[v]}
    /\ UNCHANGED <<prog, remote>>

RestartNext == Next \/ Restart

RestartSpec == Init /\ [][RestartNext]_vars

\* Catalogues the Gateway may hold beside the plain one: two deals that
\* reference the same product, a deal id that FetchDeals lists twice, and a
\* variant priced above its compare-at price.
Catalogues == {"shared", "twice", "above"}

InitCatalogue ==
    /\ Constructed
    /\ \E catalogue \in Catalogues :
        /\ metaobjects =
              [d1 |-> <<[key |-> "wtf_pricing", value |-> "true"],
                        [key |-> "start_time", value |-> 0],
                        [key |-> "product", value |-> "p1"]>>,
               d2 |-> <<[key |-> "wtf_pricing", value |-> "true"],
                        [key |-> "start_time", value |-> 1],
                        [key |-> "product",
                         value |-> IF catalogue = "shared" THEN "p1" ELSE "p2"]>>]
        /\ listing = IF catalogue = "twice" THEN <<"d1", "d1", "d2">> ELSE <<"d1", "d2">>
        /\ price = [v1 |-> 8000, v2 |-> IF catalogue = "above" THEN 10500 ELSE 10000,
                    v3 |-> 414, v4 |-> 113]
    /\ compareAtPrice = [v1 |-> 10000, v2 |-> 10000, v3 |-> 1413, v4 |-> 1113]
    /\ now = 0
    /\ cycleLog = NewCycle

CatalogueSpec == InitCatalogue /\ [][Next]_vars

\* The merchant edits the catalogue between the first cycle and the second, when
\* the first deal may be Active and the second has not reached its start time:
\* a deal's flag is taken back, its start time is moved into the future, or the
\* deal is no longer returned by FetchDeals.
Unflag(d) ==
    /\ pc = "sleep" /\ now = 0
    /\ Field(ParseFields(metaobjects[d]), "wtf_pricing") = "true"
    /\ metaobjects' = [metaobjects EXCEPT ![d] = SetField(@, "wtf_pricing", "false")]
    /\ last' = [NoStep EXCEPT !.op = "edit", !.id = d]
    /\ UNCHANGED <<local, listing, price, compareAtPrice, now>>
    /\ UNCHANGED <<starts, updateDealCalls, cycleLog, passLog, anyFault, completed, interrupted>>

Postpone(d) ==
    /\ pc = "sleep" /\ now = 0
    /\ StartReached(ParseFields(metaobjects[d]))
    /\ metaobjects' = [metaobjects EXCEPT ![d] = SetField(@, "start_time", MaxNow + 1)]
    /\ last' = [NoStep EXCEPT !.op = "edit", !.id = d]
    /\ UNCHANGED <<local, listing, price, compareAtPrice, now>>
    /\ UNCHANGED <<starts, updateDealCalls, cycleLog, passLog, anyFault, completed, interrupted>>

Delist(d) ==
    /\ pc = "sleep" /\ now = 0
    /\ d \in Range(listing)
    /\ listing' = SelectSeq(listing, LAMBDA x : x # d)
    /\ last' = [NoStep EXCEPT !.op = "edit", !.id = d]
    /\ UNCHANGED <<local, metaobjects, price, compareAtPrice, now>>
    /\ UNCHANGED <<starts, updateDealCalls, cycleLog, passLog, anyFault, completed, interrupted>>

Edit == \E d \in DealIds : Unflag(d) \/ Postpone(d) \/ Delist(d)

EditNext == Next \/ Edit

\* both deals listed and flagged, neither started yet
InitEdit ==
    /\ Init
    /\ \A d \in DealIds :
          /\ Field(ParseFields(metaobjects[d]), "wtf_pricing") = "true"
          /\ Field(ParseFields(metaobjects[d]), "wtf_pricing_started") # "true"

EditSpec == InitEdit /\ [][EditNext]_vars

\* The steps whose Gateway call succeeded, per deal and per variant, told by
\* the record of the step taken.
FetchDealsOk ==
    pc = "fetchDeals" /\ last'.op = "fetchDeals" /\ last'.outcome = "ok"
ScanOk(d) ==
    pc = "scan" /\ last'.op = "scan" /\ last'.id = d /\ last'.outcome # "shape"
FetchProductOk(d) ==
    pc = "fetchProduct" /\ last'.op = "fetchProduct" /\ last'.id = d /\ last'.outcome = "ok"
IncrementOk(v) ==
    /\ pc = "variant"
    /\ last'.op = "incrementVariantPrice" /\ last'.id = v /\ last'.outcome \in {"ok", "none"}

\* main never leaves its while (true) loop and every await returns: the step
\* that is due is taken (weak fairness of each step; for the step on a variant
\* it is written on pc, the loop over the variants being finite).
LoopRuns ==
    /\ WF_vars(FetchDeals) /\ WF_vars(ScanDeal) /\ WF_vars(UpdateDeal)
    /\ WF_vars(FetchProduct) /\ WF_vars(FinishAdjust) /\ WF_vars(Sleep)
    /\ []<>(pc # "variant")

\* No Gateway call fails for ever: a call that is made again and again succeeds
\* again and again (strong fairness of each successful step, its enabling
\* condition written out).
CallsSucceed ==
    /\ <>[](pc # "fetchDeals") \/ []<><<FetchDealsOk>>_vars
    /\ \A d \in DealIds :
          /\ <>[](~(pc = "scan" /\ deals[i].id = d)) \/ []<><<ScanOk(d)>>_vars
          /\ <>[](~(pc = "fetchProduct" /\ deals[i].id = d)) \/ []<><<FetchProductOk(d)>>_vars
    /\ \A v \in VariantIds :
          <>[](~(pc = "variant" /\ variants[j].id = v)) \/ []<><<IncrementOk(v)>>_vars

Fairness == LoopRuns /\ CallsSucceed

\* one eligible deal listed, either of the two
InitFair ==
    /\ Constructed
    /\ metaobjects =
          [d1 |-> <<[key |-> "wtf_pricing", value |-> "true"],
                    [key |-> "start_time", value |-> 0],
                    [key |-> "product", value |-> "p1"]>>,
           d2 |-> <<[key |-> "wtf_pricing", value |-> "true"],
                    [key |-> "start_time", value |-> 1],
                    [key |-> "product", value |-> "p2"]>>]
    /\ listing \in {<<"d1">>, <<"d2">>}
    /\ price = [v1 |-> 8000, v2 |-> 10000, v3 |-> 414, v4 |-> 113]
    /\ compareAtPrice = [v1 |-> 10000, v2 |-> 10000, v3 |-> 1413, v4 |-> 1113]
    /\ now = 0
    /\ cycleLog = NewCycle

FairSpec == InitFair /\ [][Next]_vars /\ Fairness

------------------------------------------------------------------------------
\* Properties.

AllAtTarget == \A k \in DOMAIN variants : price[variants[k].id] = compareAtPrice[variants[k].id]

\* C1: in every step taken while a deal is Active, the start transition is not
\* taken for it: its count of start transitions and of start mutations stays,
\* its tracker entry is not re-created, and the scan of an Active deal goes
\* straight to the price adjustment, never to updateDeal.
IdempotentStart ==
    [][/\ \A d \in DealIds :
            IsActive(trackedDeals, d) =>
                /\ starts'[d] = starts[d]
                /\ updateDealCalls'[d] = updateDealCalls[d]
       /\ (pc = "scan" /\ IsActive(trackedDeals, deals[i].id)) =>
            /\ pc' # "updateDeal"
            /\ trackedDeals' = trackedDeals]_vars

\* an Active deal was scanned again with fields that still satisfy the start
\* conditions, and was not started again
ActiveDealRescanned ==
    /\ last.op = "scan" /\ last.active /\ last.eligible /\ ~last.guard
    /\ starts[last.id] = 1
    /\ pc = "fetchProduct"

\* C2: every deal enters the tracker at most once and its start mutation is
\* issued at most once, whatever the Gateway answers.
StartedAtMostOnce ==
    \A d \in DealIds : starts[d] <= 1 /\ updateDealCalls[d] <= 1

\* C3: in every step the price of every variant does not decrease and does not
\* exceed its compare-at price, which stays fixed.
Monotonic ==
    [][\A v \in VariantIds :
          /\ price[v] <= price'[v]
          /\ price'[v] <= compareAtPrice'[v]
          /\ compareAtPrice'[v] = compareAtPrice[v]]_vars

\* a price was raised by a full increment, short of the target, in a run in
\* which a Gateway call had failed before
RaisedBelowTarget ==
    /\ last.op = "incrementVariantPrice" /\ last.requested /\ last.outcome = "ok"
    /\ last.cur < last.sent /\ last.sent < last.cmp
    /\ price[last.id] = last.sent
    /\ anyFault

\* C4: when adjustProductPrices has returned, the deal has left the Active phase
\* if and only if every variant of its product is at its compare-at price.
CompletedIffAllAtTarget ==
    last.op = "adjustProductPrices" =>
        (~IsActive(trackedDeals, last.id) <=> AllAtTarget)

\* C5: when a price mutation has failed in a pass, every variant of the product
\* has still been visited, the pass reports the product incomplete, the failed
\* variants keep the price they had, and the tracker is as it was: the deal is
\* still Active.
FailureIsolation ==
    (last.op = "adjustProductPrices" /\ passLog.failed # {}) =>
        /\ j = Len(variants) + 1
        /\ \A k \in DOMAIN variants : cycleLog.priceCalls[variants[k].id] = 1
                                      \/ variants[k].price >= variants[k].compareAtPrice
        /\ ~last.result
        /\ \A k \in DOMAIN variants :
              variants[k].id \in passLog.failed => price[variants[k].id] = variants[k].price
        /\ trackedDeals = passLog.tracked
        /\ IsActive(trackedDeals, last.id)

\* a variant's mutation failed and a later variant of the same pass was raised
SiblingRaisedAfterFailure ==
    /\ last.op = "adjustProductPrices"
    /\ \E k1, k2 \in DOMAIN variants :
          /\ k1 < k2
          /\ variants[k1].id \in passLog.failed
          /\ price[variants[k2].id] > variants[k2].price

\* C6: a variant below its target by less than the increment is sent exactly its
\* compare-at price, and when the mutation succeeds it is reported complete and
\* the Gateway holds the compare-at price.
SnapToTarget ==
    (/\ last.op = "incrementVariantPrice"
     /\ last.cur < last.cmp
     /\ last.cmp - last.cur < IncrementCents) =>
        /\ last.requested
        /\ last.sent = last.cmp
        /\ last.outcome = "ok" => last.result /\ price[last.id] = last.cmp

\* a variant within one increment of its target was snapped to it
Snapped ==
    /\ last.op = "incrementVariantPrice"
    /\ last.cur < last.cmp /\ last.cmp - last.cur < IncrementCents
    /\ last.outcome = "ok" /\ last.result

\* C7: while no Gateway call has failed, every step of a variant below its
\* target sends the price raised by the increment when the gap is at least the
\* increment and the compare-at price otherwise, and reports the variant
\* complete exactly when the price sent is the compare-at price.
StepSequence ==
    (/\ last.op = "incrementVariantPrice"
     /\ last.cur < last.cmp
     /\ ~anyFault) =>
        /\ last.requested
        /\ last.sent = IF last.cmp - last.cur >= IncrementCents
                       THEN last.cur + IncrementCents ELSE last.cmp
        /\ last.result <=> last.sent = last.cmp

\* C8: in a cycle whose FetchDeals failed the tracker is as it was at the start
\* of the cycle, no start mutation and no price mutation has been issued, and
\* the loop is at its sleep, from which the next cycle starts.
FetchFailureAbortsCycle ==
    cycleLog.fetch \notin {"none", "ok"} =>
        /\ pc = "sleep"
        /\ trackedDeals = cycleLog.tracked
        /\ cycleLog.startCalls = 0
        /\ \A v \in VariantIds : cycleLog.priceCalls[v] = 0
        /\ ENABLED Sleep

\* FetchDeals failed in a cycle that began with a deal Active
FetchFailedWhileActive ==
    /\ cycleLog.fetch \in {"errors", "throw", "shape"}
    /\ \E d \in DealIds : IsActive(trackedDeals, d)

\* C9: when FetchProduct has failed, adjustProductPrices has returned false, no
\* price mutation has been issued in this cycle for the variants of the product,
\* the deal is still Active with the tracker unchanged and the loop has gone on;
\* and the scan of an Active deal always leads to a product fetch, so the deal
\* is processed again in the next cycle.
ProductFetchFailureKeepsActive ==
    /\ [](last.op = "fetchProduct" /\ last.outcome # "ok" =>
            /\ ~last.result
            /\ \A v \in Range(ProductVariants[Field(ParseFields(metaobjects[last.id]), "product")]) :
                  cycleLog.priceCalls[v] = 0
            /\ trackedDeals = passLog.tracked
            /\ IsActive(trackedDeals, last.id)
            /\ pc \in {"scan", "sleep"})
    /\ [][(pc = "scan" /\ IsActive(trackedDeals, deals[i].id) /\ last'.outcome # "shape") =>
            pc' = "fetchProduct"]_vars

\* FetchProduct failed for an Active deal that has a variant below its target
ProductFetchFailed ==
    /\ last.op = "fetchProduct" /\ last.outcome \in {"errors", "throw", "shape"}
    /\ \E v \in Range(ProductVariants[Field(ParseFields(metaobjects[last.id]), "product")]) :
          price[v] < compareAtPrice[v]

\* C10: the loop is never left: no fault takes it out of its cycle, every cycle
\* ends at the sleep from which the next one starts, and a cycle whose FetchDeals succeeded ends before its
\* last deal only when a fault was thrown while a deal was processed.
NoFaultEscapes ==
    /\ pc \in {"fetchDeals", "scan", "updateDeal", "fetchProduct", "variant", "adjusted", "sleep"}
    /\ pc = "sleep" => ENABLED Sleep
    /\ (pc = "sleep" /\ cycleLog.fetch = "ok" /\ i <= Len(deals)) => cycleLog.dealFault

\* a fault cut a cycle short and the loop went on to its sleep
CycleCutShort ==
    /\ pc = "sleep" /\ cycleLog.fetch = "ok" /\ i <= Len(deals)
    /\ cycleLog.dealFault

\* C11: a deal that has completed in this run is terminal: in every later step
\* it takes no start transition, no start mutation is issued for it, it is not
\* Active again, and no pass of price adjustment runs on its behalf.
CompletedIsTerminal ==
    [][\A d \in completed :
          /\ starts'[d] = starts[d]
          /\ updateDealCalls'[d] = updateDealCalls[d]
          /\ ~IsActive(trackedDeals', d)
          /\ pc' \in {"fetchProduct", "variant", "adjusted"} => deals'[i'].id # d]_vars

\* C12: after a restart that caught a deal in the Active phase with a variant
\* below its target, the first scan of the deal whose fetched fields have the
\* flag "true", the start time passed and (index.js) the marker already "true"
\* leaves the deal tracked and Active, on its way to the price adjustment.
ResumesAfterRestart ==
    (/\ last.op = "scan" /\ last.outcome # "shape"
     /\ last.resumed
     /\ last.flag /\ last.reached
     /\ prog = "index" => last.started) =>
        \/ IsActive(trackedDeals, last.id) /\ pc = "fetchProduct"
        \/ pc = "updateDeal"

\* C13: in every cycle, whatever list of deal records FetchDeals returned, every
\* variant has received at most one price mutation and its price stands at most
\* one increment above the price it had when the cycle began.
OneStepPerCycle ==
    \A v \in VariantIds :
        /\ cycleLog.priceCalls[v] <= 1
        /\ price[v] - cycleLog.prices[v] <= IncrementCents

\* C14: under fairness, a deal that is Active is eventually Completed, with
\* every variant of its product at its compare-at price.
EventuallyCompleted ==
    \A d \in DealIds :
        IsActive(trackedDeals, d) ~>
            /\ d \in completed /\ ~IsActive(trackedDeals, d)
            /\ \A v \in Range(ProductVariants[Field(ParseFields(metaobjects[d]), "product")]) :
                  price[v] = compareAtPrice[v]

\* a deal has completed in a run in which a Gateway call had failed, with every
\* variant of its product at its compare-at price
CompletedAfterFault ==
    /\ anyFault
    /\ last.op = "adjustProductPrices" /\ last.result
    /\ last.id \in completed /\ ~IsActive(trackedDeals, last.id)
    /\ AllAtTarget

\* C15: a deal enters the tracker, and a start mutation is issued for it, only
\* in a step on its record of a cycle whose FetchDeals succeeded, the record
\* having the flag "true", a start time that has passed and (index.js) no
\* marker "true"; a deal that was never started is not tracked, has had no
\* start mutation, and no pass of price adjustment runs for it.
EligibilityGuard ==
    /\ [][\A d \in DealIds :
            (\/ ~Has(trackedDeals, d) /\ Has(trackedDeals', d)
             \/ updateDealCalls'[d] # updateDealCalls[d]
             \/ starts'[d] # starts[d]) =>
                /\ pc \in {"scan", "updateDeal"}
                /\ cycleLog.fetch = "ok"
                /\ deals[i].id = d
                /\ ~Has(trackedDeals, d)
                /\ Field(ParseFields(deals[i].fields), "wtf_pricing") = "true"
                /\ "start_time" \in DOMAIN ParseFields(deals[i].fields)
                /\ ParseFields(deals[i].fields)["start_time"] <= now
                /\ prog = "index" =>
                      Field(ParseFields(deals[i].fields), "wtf_pricing_started") # "true"]_vars
    /\ [](\A d \in DealIds :
            starts[d] = 0 =>
                /\ ~Has(trackedDeals, d)
                /\ updateDealCalls[d] = 0
                /\ pc \in {"fetchProduct", "variant", "adjusted"} => deals[i].id # d)

\* a deal whose flag was taken back before its start time came has been
\* scanned after that time and was not started
NeverEligibleSkipped ==
    /\ last.op = "scan" /\ last.outcome # "shape"
    /\ ~last.flag /\ last.reached /\ ~last.started
    /\ starts[last.id] = 0 /\ ~Has(trackedDeals, last.id)
    /\ \E d \in DealIds : starts[d] > 0

\* C16: a variant whose fetched price is at or above its compare-at price gets
\* no mutation, keeps its price and is reported complete; and no step lowers a
\* price or writes to a variant that stands at or above its target.
NoWriteAtTarget ==
    /\ []((last.op = "incrementVariantPrice" /\ last.cur >= last.cmp) =>
            /\ ~last.requested
            /\ last.result
            /\ price[last.id] = last.cur)
    /\ [][\A v \in VariantIds :
            /\ price[v] <= price'[v]
            /\ price[v] >= compareAtPrice[v] =>
                  /\ price'[v] = price[v]
                  /\ cycleLog'.priceCalls[v] <= cycleLog.priceCalls[v]]_vars

\* a variant priced above its compare-at price was visited and left alone
AboveTargetLeftAlone ==
    /\ last.op = "incrementVariantPrice"
    /\ last.cur > last.cmp
    /\ ~last.requested /\ last.result
    /\ price[last.id] = last.cur

\* C17: in index.js, when updateDeal has returned, whatever the outcome of its
\* mutation, the deal is in trackedDeals and Active and the loop is at the
\* price adjustment of that deal, in the same cycle.
TrackedWhateverStartOutcome ==
    last.op = "updateDeal" =>
        /\ prog = "index"
        /\ Has(trackedDeals, last.id) /\ IsActive(trackedDeals, last.id)
        /\ pc = "fetchProduct" /\ deals[i].id = last.id
        /\ cycleLog.startCalls >= 1

\* a price was raised for a deal in the cycle in which its start mutation
\* failed: the deal is Active while its remote marker is not "true"
AdjustedAfterFailedStart ==
    /\ prog = "index"
    /\ last.op = "incrementVariantPrice" /\ last.requested /\ last.outcome = "ok"
    /\ cycleLog.startCalls = 1 /\ starts[deals[i].id] = 1
    /\ IsActive(trackedDeals, deals[i].id)
    /\ Field(ParseFields(metaobjects[deals[i].id]), "wtf_pricing_started") # "true"

\* C18: when the record of a deal that is Active has been scanned, the loop is
\* at the price adjustment of that deal and no start was taken, whatever the
\* flag and the start time of the record say by now.
RecoveryIgnoresEligibility ==
    (last.op = "scan" /\ last.outcome # "shape" /\ last.active) =>
        /\ pc = "fetchProduct" /\ deals[i].id = last.id
        /\ ~last.guard
        /\ IsActive(trackedDeals, last.id)

\* an Active deal whose flag was taken back and whose start time was moved
\* into the future goes on to its price adjustment
AdjustedThoughIneligible ==
    /\ last.op = "scan" /\ last.active
    /\ ~last.flag /\ ~last.reached
    /\ pc = "fetchProduct"
    /\ \E v \in Range(ProductVariants[Field(ParseFields(deals[i].fields), "product")]) :
          price[v] < compareAtPrice[v]

\* C19: in part_000 no step removes a key of the tracker or takes a value from
\* true back to false, and a pass of price adjustment runs only for a deal
\* whose value is false.
TrackerMovesForward ==
    /\ [][prog = "part000" =>
            \A d \in DealIds :
                Has(trackedDeals, d) =>
                    /\ Has(trackedDeals', d)
                    /\ trackedDeals[d] => trackedDeals'[d]]_vars
    /\ []((prog = "part000" /\ pc \in {"fetchProduct", "variant", "adjusted"}) =>
            /\ Has(trackedDeals, deals[i].id)
            /\ ~trackedDeals[deals[i].id])

\* in part_000 a deal whose value is true was scanned again, with fields that
\* still satisfy the start conditions, and was passed over
CompletedDealPassedOver ==
    /\ prog = "part000"
    /\ last.op = "scan" /\ last.eligible /\ ~last.guard /\ ~last.active
    /\ Has(trackedDeals, last.id) /\ trackedDeals[last.id]
    /\ pc # "fetchProduct"

\* C20: the tracker entry of a deal changes only in a step on a record of that
\* deal, in a cycle whose FetchDeals succeeded and returned it; for a deal that
\* FetchDeals does not return, no start mutation, product fetch or price
\* mutation is under way.
EntryChangesOnlyWhenFetched ==
    /\ [][\A d \in DealIds :
            (\/ Has(trackedDeals, d) # Has(trackedDeals', d)
             \/ Has(trackedDeals, d) /\ Has(trackedDeals', d) /\ trackedDeals[d] # trackedDeals'[d]
             \/ d \in completed' \ completed) =>
                /\ cycleLog.fetch = "ok"
                /\ d \in Range(listing)
                /\ deals[i].id = d]_vars
    /\ [](pc \in {"updateDeal", "fetchProduct", "variant", "adjusted"} =>
            /\ cycleLog.fetch = "ok"
            /\ deals[i].id \in Range(listing))

\* a whole cycle has run without a deal that is Active and no longer listed:
\* its entry is as it was and a variant of its product is still below target
DelistedStaysActive ==
    /\ pc = "sleep" /\ cycleLog.fetch = "ok" /\ last.op # "edit"
    /\ \E d \in DealIds :
          /\ IsActive(trackedDeals, d)
          /\ d \notin Range(listing)
          /\ \A k \in DOMAIN deals : deals[k].id # d
          /\ d \notin completed
          /\ \E v \in Range(ProductVariants[Field(ParseFields(metaobjects[d]), "product")]) :
                price[v] < compareAtPrice[v]

====
